---- MODULE Spec2Model ----
(***************************************************************************)
(* Model of the drainage backend (src/app.py): the one-time Earth Engine   *)
(* session bootstrap, the water-outlet lookup, the rainfall provider and   *)
(* the /analyze handler with its hydraulic sizing.                         *)
(*                                                                         *)
(* Numbers are fixed point, because the handler works on floats:           *)
(*   lat, lon           millidegrees            (41.0 deg  -> 41000)       *)
(*   radius             metres                                             *)
(*   distances, lengths decimetres              (350 m     -> 3500)        *)
(*   raw provider dist. centimetres             (before round(dist, 1))    *)
(*   slope_deg          tenths of a degree      (2.0 deg   -> 20)          *)
(*   slope_pct          thousandths of a percent(3.492 %   -> 3492)        *)
(*   rain values        tenths of a millimetre  (50.0 mm   -> 500)         *)
(*   mean_rain          hundredths of a mm      (600 mm    -> 60000)       *)
(*   C                  hundredths              (0.85      -> 85)          *)
(*   area               square metres           (area_ha * 10000)          *)
(*   Q_flow             1e-6 m3/s                                          *)
(*   D_mm               tenths of a millimetre                             *)
(*   harvest            thousandths of a m3 before rounding                *)
(***************************************************************************)
EXTENDS Integers, Sequences, FiniteSets

VARIABLES pc, gee_ok, body, water_in, terrain_in, rain_in, loc, resp

vars == <<pc, gee_ok, body, water_in, terrain_in, rain_in, loc, resp>>

(***************************************************************************)
(* Bounds of the model.                                                    *)
(***************************************************************************)
\* longest rainfall series the weather API answers with
MaxSeriesLen == 2

(***************************************************************************)
(* Arithmetic helpers standing for the float operations of the code.       *)
(***************************************************************************)
Max(a, b) == IF a >= b THEN a ELSE b

RECURSIVE Bisect(_, _, _)
\* largest r in lo..hi with r*r <= n
Bisect(n, lo, hi) ==
    IF lo >= hi THEN lo
    ELSE LET mid == (lo + hi + 1) \div 2
         IN  IF mid * mid <= n THEN Bisect(n, mid, hi) ELSE Bisect(n, lo, mid - 1)

\* math.sqrt on a scaled integer: floor of the square root
Isqrt(n) == Bisect(n, 0, 46340)

\* Python round(): nearest multiple of d, ties to even
RoundDiv(n, d) ==
    LET q == n \div d
        r == n % d
    IN  IF 2 * r > d THEN q + 1
        ELSE IF 2 * r < d THEN q
        ELSE IF q % 2 = 0 THEN q ELSE q + 1

RECURSIVE SumSeq(_)
\* sum(rain_data)
SumSeq(s) == IF s = <<>> THEN 0 ELSE Head(s) + SumSeq(Tail(s))

\* math.tan(math.radians(slope_deg)) * 100, in thousandths of a percent:
\* x + x^3/3 + 2x^5/15 + 17x^7/315 on x scaled by 1e5
TanPct(deg10) ==
    LET x  == (deg10 * 174533) \div 1000
        x2 == (x * x) \div 100000
        x3 == (x2 * x) \div 100000
        x5 == (x3 * x2) \div 100000
        x7 == (x5 * x2) \div 100000
    IN  x + x3 \div 3 + (2 * x5) \div 15 + (17 * x7) \div 315

(***************************************************************************)
(* Inputs: request bodies and the behaviours of the two providers.         *)
(***************************************************************************)
\* JSON null inside precipitation_sum (a day without a record)
NullDay == -1

Lats == {41000, -33500}
Lons == {29000}
\* radius values of the request body; "absent" takes the default of 250
Radii == {0, 500, 650, 700}

Bodies ==
    [kind : {"ok"}, lat : Lats, lon : Lons, radius : Radii, has_radius : {TRUE}]
    \cup [kind : {"ok"}, lat : Lats, lon : Lons, radius : {0}, has_radius : {FALSE}]
    \cup [kind : {"no_lat", "bad_lat", "no_json"}, lat : {0}, lon : {0},
          radius : {0}, has_radius : {FALSE}]

\* what the Earth Engine calls of find_nearest_water do:
\*   throw          water_vectors.size().getInfo() (or anything before) raises
\*   none           size is 0
\*   nearest_throw  size > 0 but reading the nearest feature raises
\*   found          size > 0, nearest feature at dist (cm) with coordinates
FoundDists == {75000, 150024}
WaterBehaviours ==
    [tag : {"throw", "none", "nearest_throw"}, dist : {0}, lat : {0}, lon : {0}]
    \cup [tag : {"found"}, dist : FoundDists, lat : {40990}, lon : {29010}]

\* an entry of the reduceRegion record: absent, null or a number
SlopeEntries == [k : {"missing", "null"}, v : {0}] \cup [k : {"num"}, v : {5, 80}]
LandEntries  == [k : {"missing", "null"}, v : {0}] \cup [k : {"num"}, v : {10, 50, 80}]
TerrainBehaviours ==
    [tag : {"throw"}, slope_mean : {[k |-> "missing", v |-> 0]},
                      land_mode  : {[k |-> "missing", v |-> 0]}]
    \cup [tag : {"record"}, slope_mean : SlopeEntries, land_mode : LandEntries]

RainVals == {125, NullDay}
SeriesOfLen(n) == [1..n -> RainVals]
\* what requests.get(...).json() does: raises, or answers with a series
RainBehaviours ==
    [tag : {"fail"}, series : {<<>>}]
    \cup [tag : {"series"}, series : UNION {SeriesOfLen(n) : n \in 0..MaxSeriesLen}]

(***************************************************************************)
(* find_nearest_water(lat, lon)                                            *)
(***************************************************************************)
\* the three labels of the source, transliterated to ASCII
LabelNatural   == "Dogal Su Kutlesi (Dere/Deniz)"
LabelMunicipal == "Belediye Sehir Hatti"
LabelRegional  == "Bolgesel Tahliye Hatti"

\* a returned tuple (dist, label, {"lat": .., "lon": ..})
Outlet(d, label, tlat, tlon) ==
    [raised |-> FALSE, dist |-> d, label |-> label, lat |-> tlat, lon |-> tlon]

\* an exception leaving a block
Raised == [raised |-> TRUE, dist |-> 0, label |-> "", lat |-> 0, lon |-> 0]

\* the try block of find_nearest_water
WaterTry(lat, lon, w) ==
    IF w.tag = "throw" THEN Raised
    ELSE IF w.tag = "none" THEN Outlet(5000, LabelMunicipal, lat - 4, lon)
    ELSE IF w.tag = "nearest_throw" THEN Raised
    ELSE Outlet(RoundDiv(w.dist, 10), LabelNatural, w.lat, w.lon)

\* variant: no except branch, an exception of the try block leaves the function
find_nearest_water_noexcept(lat, lon, w) == WaterTry(lat, lon, w)

\* the try block with its bare except
find_nearest_water(lat, lon, w) ==
    LET t == WaterTry(lat, lon, w)
    IN  IF t.raised THEN Outlet(3500, LabelRegional, lat - 3, lon) ELSE t

(***************************************************************************)
(* get_rain_series(lat, lon)                                               *)
(***************************************************************************)
\* variant: the except branch returns an empty list
get_rain_series_emptyfallback(r) == r.series

get_rain_series(r) ==
    IF r.tag = "fail" THEN [i \in 1..10 |-> 500] ELSE r.series

(***************************************************************************)
(* analyze(): the locals of the handler and the response it returns.       *)
(***************************************************************************)
\* locals before the handler has assigned them
NoLocals ==
    [step |-> "none", lat |-> 0, lon |-> 0, radius |-> 0,
     dist_to_water |-> 0, water_source_name |-> "", target_lat |-> 0, target_lon |-> 0,
     slope_deg |-> 0, slope_pct |-> 0, land_cls |-> 0,
     rain_data |-> <<>>, mean_rain |-> 0,
     C |-> 0, area |-> 0, Q_flow |-> 0,
     total_len |-> 0, S_metric |-> 0, D_raw |-> 0, D_mm |-> 0,
     selected_system |-> ""]

\* no response yet
NoResp == [code |-> 0, json |-> [status |-> "none"]]

\* variant: the error envelope keeps a field of the partial result
ErrorResp_partial(e) ==
    [code |-> 500, json |-> [status |-> "error", msg |-> e, system |-> "dendritic"]]

\* the except branch of analyze: jsonify({"status": "error", "msg": str(e)}), 500
ErrorResp(e) == [code |-> 500, json |-> [status |-> "error", msg |-> e]]

\* float(data["lat"]), float(data["lon"]), float(data.get("radius", 250))
ParseBody(b) ==
    IF b.kind = "no_json" THEN [exc |-> "TypeError", lat |-> 0, lon |-> 0, radius |-> 0]
    ELSE IF b.kind = "no_lat" THEN [exc |-> "KeyError", lat |-> 0, lon |-> 0, radius |-> 0]
    ELSE IF b.kind = "bad_lat" THEN [exc |-> "ValueError", lat |-> 0, lon |-> 0, radius |-> 0]
    ELSE [exc |-> "", lat |-> b.lat, lon |-> b.lon,
          radius |-> IF b.has_radius THEN b.radius ELSE 250]

\* stats.get(key, default): the default only when the key is absent
StatsGet(entry, default) ==
    IF entry.k = "missing" THEN [k |-> "num", v |-> default] ELSE entry

\* variant: every built-up or higher class counts as impervious
RunoffC_geq(land_cls) == IF land_cls >= 50 THEN 85 ELSE 40

\* C = 0.85 if land_cls == 50 else 0.40
RunoffC(land_cls) == IF land_cls = 50 THEN 85 ELSE 40

\* area_ha = (math.pi * radius**2) / 10000, kept in square metres
AreaM2(radius) == (355 * radius * radius) \div 113

\* i_intensity = 65
i_intensity == 65

\* Q_flow = (C * i_intensity * area_ha) / 360, in 1e-6 m3/s
QFlow(C, area) == (area * (i_intensity \div 5) * C) \div 72

\* S_metric = max(0.005, slope_pct / 100), scaled by 1e5
SMetric(slope_pct) == Max(500, slope_pct)

\* D_mm = (((4 ** (5/3)) * n * Q_flow) / (math.pi * math.sqrt(S_metric))) ** (3/8) * 1000
\* with n = 0.013: 4^(5/3) * 0.013 / pi = 0.04170871, folded into 8342 / 50;
\* x^(3/8) is x^(1/4) * x^(1/8) by three square roots; result in tenths of a mm
ManningD(Q, S) ==
    LET sqrtS == Isqrt(S * 100000)
        t     == (Q * 50) \div sqrtS
        X     == t * 8342
        r2    == Isqrt(X)
        r4    == Isqrt(r2 * 10000)
        r8    == Isqrt(r4 * 10000)
    IN  (r4 * r8) \div 10000

\* variant: the boundary of exactly 1000 m is corrected too
FrictionCorrect_geq(D, total_len) == IF total_len >= 10000 THEN (D * 11) \div 10 ELSE D

\* if total_len > 1000: D_mm *= 1.10
FrictionCorrect(D, total_len) == IF total_len > 10000 THEN (D * 11) \div 10 ELSE D

\* variant: the land class is tested before the steep slope
SelectSystem_landfirst(slope_pct, land_cls) ==
    IF land_cls = 50 THEN "reticular"
    ELSE IF slope_pct > 12000 THEN "meandering"
    ELSE IF slope_pct < 2000 THEN "pinnate"
    ELSE "dendritic"

\* the if / elif chain choosing selected_system
SelectSystem(slope_pct, land_cls) ==
    IF slope_pct > 12000 THEN "meandering"
    ELSE IF land_cls = 50 THEN "reticular"
    ELSE IF slope_pct < 2000 THEN "pinnate"
    ELSE "dendritic"

\* variant: the divisor is the length of the series
MeanRain_bylen(rain_data) ==
    IF rain_data # <<>> THEN (SumSeq(rain_data) * 10) \div Len(rain_data) ELSE 60000

\* mean_rain = sum(rain_data) / 10 if rain_data else 600
MeanRain(rain_data) == IF rain_data # <<>> THEN SumSeq(rain_data) ELSE 60000

\* area_ha * mean_rain * 0.7, in thousandths of a m3
Harvest(area, mean_rain) == (((area \div 100) * mean_rain) \div 100) * 7

\* sum() raises TypeError on a null element
HasNull(rain_data) == \E i \in 1..Len(rain_data) : rain_data[i] = NullDay

\* the success response: jsonify({...}), 200
SuccessResp(l) ==
    [code |-> 200,
     json |-> [status |-> "success",
               system |-> l.selected_system,
               q_flow |-> RoundDiv(l.Q_flow, 1000),
               diameter_mm |-> RoundDiv(l.D_mm, 10),
               slope_pct |-> RoundDiv(l.slope_pct, 10),
               discharge |-> [distance_m |-> l.dist_to_water,
                              target |-> l.water_source_name,
                              target_lat |-> l.target_lat,
                              target_lon |-> l.target_lon,
                              total_pipe_m |-> l.total_len],
               plan_geometry |-> [pipe_path |-> << [lat |-> l.lat, lon |-> l.lon],
                                                   [lat |-> l.target_lat, lon |-> l.target_lon] >>,
                                  description |-> l.selected_system],
               harvest_m3 |-> RoundDiv(Harvest(l.area, l.mean_rain), 1000)]]

\* lines 79-81: the request body
AfterBody(b) ==
    LET p == ParseBody(b)
    IN  [exc |-> p.exc,
         l |-> IF p.exc # "" THEN NoLocals
               ELSE [NoLocals EXCEPT !.step = "body", !.lat = p.lat, !.lon = p.lon,
                                     !.radius = p.radius]]

\* lines 82-85: the catchment geometry, then the water outlet
AfterWater(a, w, gee) ==
    LET o == find_nearest_water(a.l.lat, a.l.lon, w)
    IN  IF a.exc # "" THEN a
        ELSE IF ~gee THEN [a EXCEPT !.exc = "EEException: not initialized"]
        ELSE IF o.raised THEN [a EXCEPT !.exc = "Exception: find_nearest_water"]
        ELSE [a EXCEPT !.l.step = "water", !.l.dist_to_water = o.dist,
                       !.l.water_source_name = o.label,
                       !.l.target_lat = o.lat, !.l.target_lon = o.lon]

\* lines 88-99: the terrain sample
AfterTerrain(a, t) ==
    LET sl == StatsGet(t.slope_mean, 20)
        la == StatsGet(t.land_mode, 50)
    IN  IF a.exc # "" THEN a
        ELSE IF t.tag = "throw" THEN [a EXCEPT !.exc = "EEException: reduceRegion"]
        ELSE IF sl.k = "null" THEN [a EXCEPT !.exc = "TypeError: float(None)"]
        ELSE IF la.k = "null"
             THEN [a EXCEPT !.exc = "TypeError: int(None)", !.l.slope_deg = sl.v,
                            !.l.slope_pct = TanPct(sl.v)]
        ELSE [a EXCEPT !.l.step = "terrain", !.l.slope_deg = sl.v,
                       !.l.slope_pct = TanPct(sl.v), !.l.land_cls = la.v]

\* lines 102-103: the rainfall series and its mean
AfterRain(a, r) ==
    LET rd == get_rain_series(r)
    IN  IF a.exc # "" THEN a
        ELSE IF HasNull(rd)
             THEN [a EXCEPT !.exc = "TypeError: sum", !.l.rain_data = rd]
        ELSE [a EXCEPT !.l.step = "rain", !.l.rain_data = rd,
                       !.l.mean_rain = MeanRain(rd)]

\* variant: the design intensity is derived from the rainfall mean (a tenth of it)
Sizing_rainintensity(l) ==
    LET C     == RunoffC(l.land_cls)
        area  == AreaM2(l.radius)
        Q     == (area * (l.mean_rain \div 5000) * C) \div 72
        total == l.radius * 10 + l.dist_to_water
        S     == SMetric(l.slope_pct)
        D     == ManningD(Q, S)
    IN  [l EXCEPT !.step = "sized", !.C = C, !.area = area, !.Q_flow = Q,
                  !.total_len = total, !.S_metric = S, !.D_raw = D,
                  !.D_mm = FrictionCorrect(D, total),
                  !.selected_system = SelectSystem(l.slope_pct, l.land_cls)]

\* lines 106-128: the hydraulic sizing on the locals gathered so far
Sizing(l) ==
    LET C     == RunoffC(l.land_cls)
        area  == AreaM2(l.radius)
        Q     == QFlow(C, area)
        total == l.radius * 10 + l.dist_to_water
        S     == SMetric(l.slope_pct)
        D     == ManningD(Q, S)
    IN  [l EXCEPT !.step = "sized", !.C = C, !.area = area, !.Q_flow = Q,
                  !.total_len = total, !.S_metric = S, !.D_raw = D,
                  !.D_mm = FrictionCorrect(D, total),
                  !.selected_system = SelectSystem(l.slope_pct, l.land_cls)]

\* lines 106-135, skipped when an earlier statement raised
AfterSizing(a) == IF a.exc # "" THEN a ELSE [a EXCEPT !.l = Sizing(a.l)]

\* the return statement of the try block or the one of the except branch
Reply(a) ==
    [l |-> a.l, resp |-> IF a.exc # "" THEN ErrorResp(a.exc) ELSE SuccessResp(a.l)]

\* the whole handler on a request body b and the behaviours w, t, r of the
\* providers, with or without an Earth Engine session
analyze(b, w, t, r, gee) ==
    Reply(AfterSizing(AfterRain(AfterTerrain(AfterWater(AfterBody(b), w, gee), t), r)))

(***************************************************************************)
(* The process: module import runs initialize_gee(), then the server       *)
(* handles one request after the other.                                    *)
(***************************************************************************)
Init ==
    /\ pc = "start"
    /\ gee_ok = FALSE
    /\ body = [kind |-> "none", lat |-> 0, lon |-> 0, radius |-> 0, has_radius |-> FALSE]
    /\ water_in = [tag |-> "none", dist |-> 0, lat |-> 0, lon |-> 0]
    /\ terrain_in = [tag |-> "none", slope_mean |-> [k |-> "missing", v |-> 0],
                     land_mode |-> [k |-> "missing", v |-> 0]]
    /\ rain_in = [tag |-> "none", series |-> <<>>]
    /\ loc = NoLocals
    /\ resp = NoResp

\* initialize_gee(): ee.Initialize succeeds
InitializeGeeOk ==
    /\ pc = "start"
    /\ pc' = "idle"
    /\ gee_ok' = TRUE
    /\ UNCHANGED <<body, water_in, terrain_in, rain_in, loc, resp>>

\* variant: the exception of ee.Initialize is not caught and ends the process
InitializeGeeFail_uncaught ==
    /\ pc = "start"
    /\ pc' = "crashed"
    /\ gee_ok' = FALSE
    /\ UNCHANGED <<body, water_in, terrain_in, rain_in, loc, resp>>

\* initialize_gee(): google.auth.default or ee.Initialize raises; the except
\* branch prints and returns
InitializeGeeFail ==
    /\ pc = "start"
    /\ pc' = "idle"
    /\ gee_ok' = FALSE
    /\ UNCHANGED <<body, water_in, terrain_in, rain_in, loc, resp>>

\* the provider behaviours a request can meet: without a session every
\* Earth Engine call raises
WaterFor(gee) == IF gee THEN WaterBehaviours ELSE {w \in WaterBehaviours : w.tag = "throw"}
TerrainFor(gee) == IF gee THEN TerrainBehaviours ELSE {t \in TerrainBehaviours : t.tag = "throw"}

\* POST /analyze
Analyze ==
    /\ pc = "idle"
    /\ \E b \in Bodies, w \in WaterFor(gee_ok), t \in TerrainFor(gee_ok), r \in RainBehaviours :
          LET out == analyze(b, w, t, r, gee_ok)
          IN  /\ body' = b
              /\ water_in' = w
              /\ terrain_in' = t
              /\ rain_in' = r
              /\ loc' = out.l
              /\ resp' = out.resp
    /\ pc' = "handled"
    /\ UNCHANGED gee_ok

\* the response is sent and the request's objects are dropped
Respond ==
    /\ pc = "handled"
    /\ pc' = "idle"
    /\ body' = [kind |-> "none", lat |-> 0, lon |-> 0, radius |-> 0, has_radius |-> FALSE]
    /\ water_in' = [tag |-> "none", dist |-> 0, lat |-> 0, lon |-> 0]
    /\ terrain_in' = [tag |-> "none", slope_mean |-> [k |-> "missing", v |-> 0],
                      land_mode |-> [k |-> "missing", v |-> 0]]
    /\ rain_in' = [tag |-> "none", series |-> <<>>]
    /\ loc' = NoLocals
    /\ resp' = NoResp
    /\ UNCHANGED gee_ok

Next == InitializeGeeOk \/ InitializeGeeFail \/ Analyze \/ Respond

Spec == Init /\ [][Next]_vars

TypeOK ==
    /\ pc \in {"start", "idle", "handled"}
    /\ gee_ok \in BOOLEAN
    /\ resp.code \in {0, 200, 500}

(***************************************************************************)
(* Vocabulary of the properties.                                           *)
(***************************************************************************)
Handled == pc = "handled"
Success == Handled /\ resp.code = 200 /\ resp.json.status = "success"
Failure == Handled /\ resp.code = 500 /\ resp.json.status = "error"
BodyOk == body.kind = "ok"
ReqRadius == IF body.has_radius THEN body.radius ELSE 250
\* find_nearest_water was called and its result bound (line 85)
WaterCalled == Handled /\ BodyOk /\ gee_ok
TerrainNull ==
    terrain_in.tag = "record"
    /\ (terrain_in.slope_mean.k = "null" \/ terrain_in.land_mode.k = "null")
TerrainOk == terrain_in.tag = "record" /\ ~TerrainNull
RainNull ==
    rain_in.tag = "series"
    /\ \E i \in 1..Len(rain_in.series) : rain_in.series[i] < 0
TenFifties == [i \in 1..10 |-> 500]
CircleArea(r) == (355 * r * r) \div 113

(***************************************************************************)
(* C1: find_nearest_water never raises and returns exactly one of three    *)
(* results: the nearest feature with its distance rounded to one decimal   *)
(* and the natural-water label when a feature is found; 500 m, the         *)
(* municipal label and the centre moved 0.004 degrees south when the       *)
(* feature count is 0; 350 m, the regional label and the centre moved      *)
(* 0.003 degrees south when any step throws.                               *)
(***************************************************************************)
C1_OutletAlwaysReturned ==
    WaterCalled =>
        /\ loc.step \in {"water", "terrain", "rain", "sized"}
        /\ \/ /\ water_in.tag = "found"
              /\ loc.water_source_name = "Dogal Su Kutlesi (Dere/Deniz)"
              /\ 10 * loc.dist_to_water - water_in.dist \in -5..5
              /\ loc.target_lat = water_in.lat /\ loc.target_lon = water_in.lon
           \/ /\ water_in.tag = "none"
              /\ loc.water_source_name = "Belediye Sehir Hatti"
              /\ loc.dist_to_water = 5000
              /\ loc.target_lat = body.lat - 4 /\ loc.target_lon = body.lon
           \/ /\ water_in.tag \in {"throw", "nearest_throw"}
              /\ loc.water_source_name = "Bolgesel Tahliye Hatti"
              /\ loc.dist_to_water = 3500
              /\ loc.target_lat = body.lat - 3 /\ loc.target_lon = body.lon

C1_Witness ==
    /\ WaterCalled /\ water_in.tag = "nearest_throw"
    /\ loc.dist_to_water = 3500 /\ loc.target_lat = -33503

(***************************************************************************)
(* C2: when the terrain lookup fails (reduceRegion throws, or the record   *)
(* lacks slope_mean / land_mode or holds null there) the handler uses      *)
(* slope_deg = 2.0 and land_class = 50 and still answers with success.     *)
(***************************************************************************)
C2_TerrainFailureUsesDefaults ==
    (WaterCalled /\ ~RainNull) =>
        /\ terrain_in.tag = "throw" =>
              Success /\ loc.slope_deg = 20 /\ loc.land_cls = 50
        /\ (terrain_in.tag = "record" /\ terrain_in.slope_mean.k \in {"missing", "null"}) =>
              Success /\ loc.slope_deg = 20
        /\ (terrain_in.tag = "record" /\ terrain_in.land_mode.k \in {"missing", "null"}) =>
              Success /\ loc.land_cls = 50

(***************************************************************************)
(* C3: the pattern is decided by (slope_pct, land_class) alone, first      *)
(* match in the order meandering (slope_pct > 12), reticular               *)
(* (land_class = 50), pinnate (slope_pct < 2), dendritic.                  *)
(***************************************************************************)
C3_PatternPriority ==
    Success =>
        /\ resp.json.system \in {"dendritic", "meandering", "reticular", "pinnate"}
        /\ resp.json.system =
              IF loc.slope_pct > 12000 THEN "meandering"
              ELSE IF loc.land_cls = 50 THEN "reticular"
              ELSE IF loc.slope_pct < 2000 THEN "pinnate"
              ELSE "dendritic"

C3_Witness ==
    Success /\ loc.land_cls = 50 /\ loc.slope_pct < 2000 /\ resp.json.system = "reticular"

(***************************************************************************)
(* C4: the diameter is 1.10 times the Manning diameter when                *)
(* radius + distance_to_water > 1000 m and the Manning diameter itself     *)
(* otherwise; exactly 1000 m is not corrected; and for a non-zero          *)
(* diameter the corrected value appears only above 1000 m.                 *)
(***************************************************************************)
C4_FrictionCorrection ==
    Success =>
        LET total == 10 * ReqRadius + loc.dist_to_water
        IN  /\ loc.D_mm = IF total > 10000 THEN (11 * loc.D_raw) \div 10 ELSE loc.D_raw
            /\ total = 10000 => loc.D_mm = loc.D_raw
            /\ loc.D_raw > 0 => (loc.D_mm > loc.D_raw <=> total > 10000)
            /\ resp.json.diameter_mm = RoundDiv(loc.D_mm, 10)

C4_Witness ==
    /\ Success /\ water_in.tag = "throw" /\ ReqRadius = 700
    /\ loc.D_mm > loc.D_raw

(***************************************************************************)
(* C5: when the rainfall fetch fails the series is ten values 50.0, the    *)
(* mean is 50.0 whatever the radius, and the request succeeds with         *)
(* harvest_m3 = area_ha * 50.0 * 0.7 rounded.                              *)
(***************************************************************************)
C5_RainFallback ==
    (WaterCalled /\ TerrainOk /\ rain_in.tag = "fail") =>
        /\ Success
        /\ loc.rain_data = TenFifties
        /\ loc.mean_rain = 5000
        /\ resp.json.harvest_m3 =
              RoundDiv((((CircleArea(ReqRadius) \div 100) * 5000) \div 100) * 7, 1000)

C5_Witness ==
    Success /\ rain_in.tag = "fail" /\ ReqRadius = 650 /\ resp.json.harvest_m3 = 4646

(***************************************************************************)
(* C6: a request ends either in a 200 response with status success and     *)
(* all seven result fields, or in a 500 response with only status error    *)
(* and msg; every exception of the pipeline, a missing or non-numeric      *)
(* lat included, gives the second.                                         *)
(***************************************************************************)
C6_TwoEnvelopes ==
    Handled =>
        LET raises == \/ ~BodyOk
                      \/ ~gee_ok
                      \/ terrain_in.tag = "throw"
                      \/ TerrainNull
                      \/ RainNull
        IN  /\ raises =>
                 /\ resp.code = 500
                 /\ DOMAIN resp.json = {"status", "msg"}
                 /\ resp.json.status = "error"
            /\ ~raises =>
                 /\ resp.code = 200
                 /\ DOMAIN resp.json = {"status", "system", "q_flow", "diameter_mm",
                                        "slope_pct", "discharge", "plan_geometry",
                                        "harvest_m3"}
                 /\ resp.json.status = "success"

C6_Witness ==
    /\ Failure /\ terrain_in.tag = "throw" /\ gee_ok
    /\ loc.step = "water" /\ loc.dist_to_water = 7500

(***************************************************************************)
(* C7: mean_rain is sum(series) / 10 whatever the length of the series,    *)
(* an empty series gives 600, and every success response has               *)
(* harvest_m3 = area_ha * mean_rain * 0.7.                                 *)
(***************************************************************************)
C7_MeanRainDivisorTen ==
    Success =>
        LET series == IF rain_in.tag = "fail" THEN TenFifties ELSE rain_in.series
            mean   == IF series = <<>> THEN 60000 ELSE SumSeq(series)
        IN  /\ loc.mean_rain = mean
            /\ resp.json.harvest_m3 =
                  RoundDiv((((CircleArea(ReqRadius) \div 100) * mean) \div 100) * 7, 1000)

C7_Witness ==
    Success /\ Len(rain_in.series) = 2 /\ loc.mean_rain = 250

(***************************************************************************)
(* C8: a failed session initialisation leaves the process serving; every   *)
(* request handled without a session ends in the 500 error envelope, the   *)
(* one after a failed request too.                                         *)
(***************************************************************************)
C8_InitFailureSurvived ==
    (pc # "start" /\ ~gee_ok) =>
        /\ pc # "handled" => ENABLED Analyze
        /\ pc = "handled" => resp.code = 500 /\ resp.json.status = "error"

C8_Witness ==
    ~gee_ok /\ Failure /\ BodyOk /\ loc.step = "body"

(***************************************************************************)
(* C9: C is 0.85 exactly for land class 50 and 0.40 otherwise,             *)
(* area_ha = pi * radius^2 / 10000, Q = C * 65 * area_ha / 360 with the    *)
(* constant intensity 65, and Q >= 0 (Q > 0 for radius > 0).               *)
(***************************************************************************)
C9_RationalMethod ==
    Success =>
        /\ loc.C = IF loc.land_cls = 50 THEN 85 ELSE 40
        /\ loc.area = CircleArea(ReqRadius)
        /\ loc.Q_flow = (loc.area * 13 * loc.C) \div 72
        /\ loc.Q_flow >= 0
        /\ ReqRadius > 0 => loc.Q_flow > 0
        /\ resp.json.q_flow = RoundDiv(loc.Q_flow, 1000)

C9_Witness ==
    Success /\ loc.land_cls = 80 /\ loc.C = 40 /\ ReqRadius = 250 /\ resp.json.q_flow = 1418

(***************************************************************************)
(* C10: with the same request, terrain sample and outlet, any other        *)
(* behaviour of the rainfall provider that also ends in success gives the  *)
(* same system, q_flow and diameter_mm.                                    *)
(***************************************************************************)
C10_RainIndependence ==
    Success =>
        \A r \in RainBehaviours :
            LET other == analyze(body, water_in, terrain_in, r, gee_ok).resp
            IN  other.code = 200 =>
                    /\ other.json.system = resp.json.system
                    /\ other.json.q_flow = resp.json.q_flow
                    /\ other.json.diameter_mm = resp.json.diameter_mm

C10_Witness ==
    /\ Success /\ rain_in.tag = "series" /\ rain_in.series = <<>>
    /\ resp.json.harvest_m3 > 0
    /\ \E r \in RainBehaviours :
          analyze(body, water_in, terrain_in, r, gee_ok).resp.json.harvest_m3
              # resp.json.harvest_m3

====
